---- MODULE Spec2Model ----
(***************************************************************************)
(* Model of the NHD_0216K3Z driver class (src/NHD_0216K3Z.py): a 2x16      *)
(* character LCD driven over I2C by single-byte writes.                    *)
(*                                                                         *)
(* Characters are modelled by their Unicode code points, bytes by          *)
(* integers.  Every public method is one action; the bytes the method      *)
(* hands to SMBus.write_byte are recorded, in order, in `written`,         *)
(* together with the address each was sent to and the statement that sent  *)
(* it.  A Python exception ends the method at the statement that raised    *)
(* it: ValueError from the driver's own checks, IOError from write_byte.   *)
(***************************************************************************)
EXTENDS Integers, Sequences, FiniteSets

VARIABLES
    i2c_addr,   \* self.i2c_addr
    prev_addr,  \* self.i2c_addr as it was when the last call started
    call,       \* the last method call: its name and arguments
    written,    \* the write_byte calls of the last method call that completed
    outcome,    \* "ok", or the exception that ended the last call
    ret,        \* the value the last call returned
    pc          \* the caller: "idle" before a call, "returned" after it

vars == <<i2c_addr, prev_addr, call, written, outcome, ret, pc>>

(***************************************************************************)
(* Bounds of the model.                                                    *)
(***************************************************************************)
\* longest message of the one-marker family
MaxLen == 34
\* longest word of the three-word family
MaxWordLen == 17
\* write_byte call of a method that may raise IOError (0: none does)
MaxFailAt == 3
\* largest repeat count of the shift operations
MaxShift == 2
\* characters 0..MaxCodePoint are all tried on _get_char_code
MaxCodePoint == 260
\* set_cursor_pos and clear_line are tried on lines -1..MaxLine
MaxLine == 4
\* set_cursor_pos is tried on columns -1..MaxColumn
MaxColumn == 18
\* write_line is tried on lines 0..MaxTextLine
MaxTextLine == 2

(***************************************************************************)
(* special_chars: the class's table, code point -> display byte.           *)
(***************************************************************************)
special_chars ==
    [c \in {0, 1, 2, 3, 4, 5, 6, 7, 165, 8594, 8592, 176, 945, 228, 241, 246,
            946, 400, 956, 963, 961, 8730, 162, 952, 8734, 937, 931, 960, 247,
            9632} |->
       CASE c \in 0..7 -> c     \* '\0'..'\7': 0x00..0x07
         [] c = 165  -> 92      \* yen            0x5C
         [] c = 8594 -> 126     \* right arrow    0x7E
         [] c = 8592 -> 127     \* left arrow     0x7F
         [] c = 176  -> 223     \* degree         0xDF
         [] c = 945  -> 224     \* alpha          0xE0
         [] c = 228  -> 225     \* a umlaut       0xE1
         [] c = 241  -> 238     \* n tilde        0xEE
         [] c = 246  -> 239     \* o umlaut       0xEF
         [] c = 946  -> 226     \* beta           0xE2
         [] c = 400  -> 227     \* open E         0xE3
         [] c = 956  -> 228     \* mu             0xE4
         [] c = 963  -> 229     \* sigma          0xE5
         [] c = 961  -> 230     \* rho            0xE6
         [] c = 8730 -> 232     \* square root    0xE8
         [] c = 162  -> 236     \* cent           0xEC
         [] c = 952  -> 242     \* theta          0xF2
         [] c = 8734 -> 243     \* infinity       0xF3
         [] c = 937  -> 244     \* Omega          0xF4
         [] c = 931  -> 246     \* Sigma          0xF6
         [] c = 960  -> 247     \* pi             0xF7
         [] c = 247  -> 253     \* division sign  0xFD
         [] c = 9632 -> 255]    \* black square   0xFF

(***************************************************************************)
(* Runs.  A run is what a piece of code did: the bytes it passed to        *)
(* write_byte, the exception it raised ("none": it completed), and the     *)
(* value it returned.                                                      *)
(***************************************************************************)
RNone == [kind |-> "None", val |-> 0]
RBool(b) == [kind |-> "bool", val |-> IF b THEN 1 ELSE 0]
RInt(n) == [kind |-> "int", val |-> n]

Skip == [out |-> <<>>, err |-> "none", ret |-> RNone]
Raise == [out |-> <<>>, err |-> "ValueError", ret |-> RNone]
Emit(b, s) == [out |-> <<[byte |-> b, src |-> s]>>, err |-> "none", ret |-> RNone]
Return(r) == [out |-> <<>>, err |-> "none", ret |-> r]

\* statement a; statement b
Then(a, b) ==
    IF a.err = "none"
    THEN [out |-> a.out \o b.out, err |-> b.err, ret |-> b.ret]
    ELSE a

\* a loop: bodies[k] is what iteration k would do; the iterations run in
\* order and the first exception ends the loop (the iterations lo..hi are
\* composed as lo..mid; mid+1..hi)
ForEach(bodies) ==
    LET n == Len(bodies)
        run[r \in (1..n) \X (1..n)] ==
            IF r[1] = r[2] THEN bodies[r[1]]
            ELSE LET mid == (r[1] + r[2]) \div 2
                 IN Then(run[<<r[1], mid>>], run[<<mid + 1, r[2]>>])
    IN IF n = 0 THEN Skip ELSE run[<<1, n>>]

\* the failAt-th write_byte call of the method raises IOError
Transport(run, failAt) ==
    IF failAt \in 1..Len(run.out)
    THEN [out |-> SubSeq(run.out, 1, failAt - 1), err |-> "IOError", ret |-> RNone]
    ELSE run

(***************************************************************************)
(* The methods, as runs.                                                   *)
(***************************************************************************)

\* _send_cmd(cmd, *params): 0xFE, cmd, then each parameter, one write each
_send_cmd(cmd, params) ==
    Then(Emit(254, "esc"),
    Then(Emit(cmd, "cmd"),
         ForEach([k \in 1..Len(params) |-> Emit(params[k], "param")])))

\* _get_char_code(char) with the test on backslash left out
get_char_code_no92(char) ==
    IF char \in DOMAIN special_chars THEN Return(RInt(special_chars[char]))
    ELSE IF char >= 32 /\ char <= 125 THEN Return(RInt(char))
    ELSE Raise

\* _get_char_code(char) passing every code point up to 255 through
get_char_code_bytes(char) ==
    IF char \in DOMAIN special_chars THEN Return(RInt(special_chars[char]))
    ELSE IF char >= 32 /\ char <= 255 /\ char # 92 THEN Return(RInt(char))
    ELSE Raise

\* _get_char_code(char)
_get_char_code(char) ==
    IF char \in DOMAIN special_chars THEN Return(RInt(special_chars[char]))
    ELSE IF char >= 32 /\ char <= 125 /\ char # 92 THEN Return(RInt(char))
    ELSE Raise

\* write_char_from_code(code)
write_char_from_code(code) ==
    IF code < 0 \/ code > 255 THEN Raise ELSE Emit(code, "code")

\* write(msg): each character is encoded, then written, before the next is
\* looked at
write(msg) ==
    ForEach([k \in 1..Len(msg) |->
                LET char_code == _get_char_code(msg[k]) IN
                IF char_code.err # "none" THEN Raise
                ELSE Emit(char_code.ret.val, "char")])

\* set_cursor_pos(line, column) accepting column 0
set_cursor_pos_col0(line, column) ==
    IF column < 0 \/ column > 16 \/ line < 1 \/ line > 2 THEN Raise
    ELSE _send_cmd(69, <<(line - 1) * 64 + (column - 1)>>)

\* set_cursor_pos(line, column): opcode 0x45, line 2 at offset 0x40
set_cursor_pos(line, column) ==
    IF column < 1 \/ column > 16 \/ line < 1 \/ line > 2 THEN Raise
    ELSE _send_cmd(69, <<(line - 1) * 64 + (column - 1)>>)

home_cursor == _send_cmd(70, <<>>)

clear_screen == _send_cmd(81, <<>>)

\* clear_line(line)
clear_line(line) ==
    Then(set_cursor_pos(line, 1),
    Then(write([k \in 1..16 |-> 32]),
         set_cursor_pos(line, 1)))

\* write_line(msg, line, centered); // is floor division
write_line(msg, line, centered) ==
    LET length == Len(msg)
        start_col == IF centered THEN 1 + ((16 - length) \div 2) ELSE 1
    IN Then(clear_line(line),
       Then(set_cursor_pos(line, start_col),
       Then(write(msg),
            Return(RBool(length <= 16)))))

\* str.isspace() of one character: what msg.split() splits on
IsSpace(c) ==
    c \in {9, 10, 11, 12, 13, 28, 29, 30, 31, 32, 133, 160, 5760, 8232, 8233,
           8239, 8287, 12288} \cup (8192..8202)

\* msg.split(): the maximal runs of non-whitespace characters, in order
split(msg) ==
    LET starts == {k \in 1..Len(msg) :
                     ~IsSpace(msg[k]) /\ (k = 1 \/ IsSpace(msg[k - 1]))}
        start(r) == CHOOSE k \in starts :
                        Cardinality({j \in starts : j <= k}) = r
        end(k) == CHOOSE e \in k..Len(msg) :
                     /\ \A j \in k..e : ~IsSpace(msg[j])
                     /\ (e = Len(msg) \/ IsSpace(msg[e + 1]))
    IN [r \in 1..Cardinality(starts) |-> SubSeq(msg, start(r), end(start(r)))]

\* the loop of disp_msg over the words (preserve_words): i starts at 0 and
\* grows by len(word) + 1 with every word
word_loop(words) ==
    LET i_at[k \in 1..(Len(words) + 1)] ==
            IF k = 1 THEN 0 ELSE i_at[k - 1] + Len(words[k - 1]) + 1
        step(k) ==
            LET word == words[k]
                i == i_at[k]
            IN Then(IF i # 16 /\ i # 0 THEN write(<<32>>) ELSE Skip,
               Then(IF i + Len(word) > 16 THEN set_cursor_pos(2, 1) ELSE Skip,
                    write(word)))
    IN Then(ForEach([k \in 1..Len(words) |-> step(k)]),
            Return(RBool(i_at[Len(words) + 1] <= 33)))

\* the loop of disp_msg over the characters, i = 0 .. len(msg) - 1
char_loop(msg) ==
    Then(ForEach([k \in 1..Len(msg) |->
                    Then(IF k - 1 = 16 THEN set_cursor_pos(2, 1) ELSE Skip,
                         write(<<msg[k]>>))]),
         Return(RBool(Len(msg) <= 32)))

\* the character loop jumping to line 2 one character late
char_loop_late(msg) ==
    Then(ForEach([k \in 1..Len(msg) |->
                    Then(IF k - 1 = 17 THEN set_cursor_pos(2, 1) ELSE Skip,
                         write(<<msg[k]>>))]),
         Return(RBool(Len(msg) <= 32)))

\* disp_msg(msg, preserve_words) with the late character loop
disp_msg_late(msg, preserve_words) ==
    Then(clear_screen,
    Then(home_cursor,
         IF preserve_words THEN word_loop(split(msg))
         ELSE char_loop_late(msg)))

\* disp_msg(msg, preserve_words)
disp_msg(msg, preserve_words) ==
    Then(clear_screen,
    Then(home_cursor,
         IF preserve_words THEN word_loop(split(msg))
         ELSE char_loop(msg)))

\* for i in range(spaces): self._send_cmd(cmd)
repeat_cmd(cmd, spaces) ==
    ForEach([k \in 1..spaces |-> _send_cmd(cmd, <<>>)])

set_contrast(contrast) ==
    IF contrast < 1 \/ contrast > 50 THEN Raise
    ELSE _send_cmd(82, <<contrast>>)

set_backlight_brightness(brightness) ==
    IF brightness < 1 \/ brightness > 8 THEN Raise
    ELSE _send_cmd(83, <<brightness>>)

\* load_custom_character(custom_char_slot, bitmap): rows are tested i < 0x1F
load_custom_character(custom_char_slot, bitmap) ==
    IF custom_char_slot < 0 \/ custom_char_slot > 7 THEN Raise
    ELSE IF Len(bitmap) # 8
            \/ ~(\A k \in 1..Len(bitmap) : bitmap[k] < 31 /\ bitmap[k] >= 0)
    THEN Raise
    ELSE _send_cmd(84, <<custom_char_slot>> \o bitmap)

\* disp_custom_chars()
disp_custom_chars ==
    Then(write_line(<<0, 1, 2, 3, 4, 5, 6, 7>>, 1, FALSE),
    Then(write_line(<<48, 49, 50, 51, 52, 53, 54, 55>>, 2, FALSE),
         Return(RNone)))

(***************************************************************************)
(* Arguments the calls are tried with.                                     *)
(***************************************************************************)
\* I2C addresses: example.py's 0x0A, and 0x28
Addrs == {10, 40}

\* n characters, all 'A' but the k-th, which is d (k = 0: all 'A')
Marked(n, k, d) == [j \in 1..n |-> IF j = k THEN d ELSE 65]

\* slot 0, tab, space, backslash, yen, thorn (U+00FE), black square
MarkChars == {0, 9, 32, 92, 165, 254, 9632}

MarkedTexts ==
    {Marked(n, 0, 65) : n \in 0..MaxLen}
    \cup {Marked(n[1], n[2], d) :
            n \in {x \in (1..MaxLen) \X (1..MaxLen) : x[2] <= x[1]}, d \in MarkChars}

\* up to three words 'a..a', 'b..b', 'c..c' (length 0: the word is missing)
\* with sep between them
ThreeWords(l1, l2, l3, sep) ==
    [j \in 1..l1 |-> 97] \o sep \o [j \in 1..l2 |-> 98] \o sep \o [j \in 1..l3 |-> 99]

WordTexts ==
    {ThreeWords(l[1], l[2], l[3], sep) :
        l \in (0..MaxWordLen) \X (0..MaxWordLen) \X (0..MaxWordLen),
        sep \in {<<32>>, <<9, 32>>}}

\* 7 to 9 rows, all 0 but the k-th, which is v
MarkedBitmaps ==
    {[j \in 1..n |-> IF j = k THEN v ELSE 0] :
        n \in 7..9, k \in 1..7, v \in {-1, 0, 1, 30, 31, 32}}

(***************************************************************************)
(* The state machine: one action per method call.                          *)
(***************************************************************************)
NoCall ==
    [name |-> "__init__", msg |-> <<>>, line |-> 0, column |-> 0,
     flag |-> FALSE, num |-> 0, bitmap |-> <<>>, failAt |-> 0]

\* __init__(i2c_bus, i2c_addr)
Init ==
    /\ i2c_addr \in Addrs
    /\ prev_addr = i2c_addr
    /\ call = NoCall
    /\ written = <<>>
    /\ outcome = "ok"
    /\ ret = RNone
    /\ pc = "idle"

\* the call c ran as run0 would without transport errors; every write_byte
\* is given self.i2c_addr as read when it is made
Finish(c, run0) ==
    LET run == Transport(run0, c.failAt) IN
    /\ pc' = "returned"
    /\ call' = c
    /\ written' = [k \in 1..Len(run.out) |->
                     [addr |-> i2c_addr, byte |-> run.out[k].byte,
                      src |-> run.out[k].src]]
    /\ outcome' = IF run.err = "none" THEN "ok" ELSE run.err
    /\ ret' = run.ret
    /\ prev_addr' = i2c_addr

Call_get_char_code ==
    /\ pc = "idle"
    /\ \E char \in (0..MaxCodePoint) \cup DOMAIN special_chars :
        /\ Finish([NoCall EXCEPT !.name = "_get_char_code", !.num = char],
                  _get_char_code(char))
        /\ UNCHANGED i2c_addr

Call_write_char_from_code ==
    /\ pc = "idle"
    /\ \E code \in {-1, 0, 65, 254, 255, 256}, failAt \in 0..MaxFailAt :
        /\ Finish([NoCall EXCEPT !.name = "write_char_from_code", !.num = code,
                                 !.failAt = failAt],
                  write_char_from_code(code))
        /\ UNCHANGED i2c_addr

Call_write ==
    /\ pc = "idle"
    /\ \E msg \in MarkedTexts, failAt \in 0..MaxFailAt :
        /\ Finish([NoCall EXCEPT !.name = "write", !.msg = msg, !.failAt = failAt],
                  write(msg))
        /\ UNCHANGED i2c_addr

Call_write_line ==
    /\ pc = "idle"
    /\ \E msg \in MarkedTexts, line \in 0..MaxTextLine, centered \in BOOLEAN,
       failAt \in 0..MaxFailAt :
        /\ Finish([NoCall EXCEPT !.name = "write_line", !.msg = msg, !.line = line,
                                 !.flag = centered, !.failAt = failAt],
                  write_line(msg, line, centered))
        /\ UNCHANGED i2c_addr

Call_disp_msg ==
    /\ pc = "idle"
    /\ \E msg \in MarkedTexts \cup WordTexts, preserve_words \in BOOLEAN,
       failAt \in 0..MaxFailAt :
        /\ Finish([NoCall EXCEPT !.name = "disp_msg", !.msg = msg,
                                 !.flag = preserve_words, !.failAt = failAt],
                  disp_msg(msg, preserve_words))
        /\ UNCHANGED i2c_addr

Call_set_cursor_pos ==
    /\ pc = "idle"
    /\ \E line \in -1..MaxLine, column \in -1..MaxColumn, failAt \in 0..MaxFailAt :
        /\ Finish([NoCall EXCEPT !.name = "set_cursor_pos", !.line = line,
                                 !.column = column, !.failAt = failAt],
                  set_cursor_pos(line, column))
        /\ UNCHANGED i2c_addr

Call_clear_line ==
    /\ pc = "idle"
    /\ \E line \in -1..MaxLine, failAt \in 0..MaxFailAt :
        /\ Finish([NoCall EXCEPT !.name = "clear_line", !.line = line,
                                 !.failAt = failAt],
                  clear_line(line))
        /\ UNCHANGED i2c_addr

Call_load_custom_character ==
    /\ pc = "idle"
    /\ \E custom_char_slot \in -1..8, bitmap \in MarkedBitmaps,
       failAt \in 0..MaxFailAt :
        /\ Finish([NoCall EXCEPT !.name = "load_custom_character",
                                 !.num = custom_char_slot, !.bitmap = bitmap,
                                 !.failAt = failAt],
                  load_custom_character(custom_char_slot, bitmap))
        /\ UNCHANGED i2c_addr

Call_disp_custom_chars ==
    /\ pc = "idle"
    /\ \E failAt \in 0..MaxFailAt :
        /\ Finish([NoCall EXCEPT !.name = "disp_custom_chars", !.failAt = failAt],
                  disp_custom_chars)
        /\ UNCHANGED i2c_addr

\* the methods that send one fixed command: display_on, display_off,
\* home_cursor, backspace, clear_screen, disp_firmware_version,
\* disp_rs232_baud_rate, disp_i2c_address
FixedCommands ==
    [display_on |-> 65, display_off |-> 66, home_cursor |-> 70, backspace |-> 78,
     clear_screen |-> 81, disp_firmware_version |-> 112,
     disp_rs232_baud_rate |-> 113, disp_i2c_address |-> 114]

Call_fixed_command ==
    /\ pc = "idle"
    /\ \E name \in DOMAIN FixedCommands, failAt \in 0..MaxFailAt :
        /\ Finish([NoCall EXCEPT !.name = name, !.failAt = failAt],
                  _send_cmd(FixedCommands[name], <<>>))
        /\ UNCHANGED i2c_addr

\* underline_cursor(enabled), blinking_cursor(enabled)
Call_cursor_style ==
    /\ pc = "idle"
    /\ \E name \in {"underline_cursor", "blinking_cursor"}, enabled \in BOOLEAN,
       failAt \in 0..MaxFailAt :
        /\ Finish([NoCall EXCEPT !.name = name, !.flag = enabled, !.failAt = failAt],
                  IF name = "underline_cursor"
                  THEN (IF enabled THEN _send_cmd(71, <<>>) ELSE _send_cmd(72, <<>>))
                  ELSE (IF enabled THEN _send_cmd(75, <<>>) ELSE _send_cmd(76, <<>>)))
        /\ UNCHANGED i2c_addr

\* shift_cursor_left, shift_cursor_right, shift_display_left,
\* shift_display_right (spaces)
ShiftCommands ==
    [shift_cursor_left |-> 73, shift_cursor_right |-> 74,
     shift_display_left |-> 85, shift_display_right |-> 86]

Call_shift ==
    /\ pc = "idle"
    /\ \E name \in DOMAIN ShiftCommands, spaces \in -1..MaxShift,
       failAt \in 0..MaxFailAt :
        /\ Finish([NoCall EXCEPT !.name = name, !.num = spaces, !.failAt = failAt],
                  repeat_cmd(ShiftCommands[name], spaces))
        /\ UNCHANGED i2c_addr

Call_set_contrast ==
    /\ pc = "idle"
    /\ \E contrast \in {0, 1, 50, 51}, failAt \in 0..MaxFailAt :
        /\ Finish([NoCall EXCEPT !.name = "set_contrast", !.num = contrast,
                                 !.failAt = failAt],
                  set_contrast(contrast))
        /\ UNCHANGED i2c_addr

Call_set_backlight_brightness ==
    /\ pc = "idle"
    /\ \E brightness \in {0, 1, 8, 9}, failAt \in 0..MaxFailAt :
        /\ Finish([NoCall EXCEPT !.name = "set_backlight_brightness",
                                 !.num = brightness, !.failAt = failAt],
                  set_backlight_brightness(brightness))
        /\ UNCHANGED i2c_addr

Call_change_rs232_baud_rate ==
    /\ pc = "idle"
    /\ \E baud_rate \in 1..8, failAt \in 0..MaxFailAt :
        /\ Finish([NoCall EXCEPT !.name = "change_rs232_baud_rate",
                                 !.num = baud_rate, !.failAt = failAt],
                  _send_cmd(97, <<baud_rate>>))
        /\ UNCHANGED i2c_addr

\* change_i2c_address(new_addr) storing the address even when _send_cmd raised
Call_change_i2c_address_always ==
    /\ pc = "idle"
    /\ \E new_addr \in Addrs, failAt \in 0..MaxFailAt :
        /\ Finish([NoCall EXCEPT !.name = "change_i2c_address", !.num = new_addr,
                                 !.failAt = failAt],
                  _send_cmd(98, <<new_addr>>))
        /\ i2c_addr' = new_addr

\* change_i2c_address(new_addr): the assignment is reached only when
\* _send_cmd returned
Call_change_i2c_address ==
    /\ pc = "idle"
    /\ \E new_addr \in Addrs, failAt \in 0..MaxFailAt :
        /\ Finish([NoCall EXCEPT !.name = "change_i2c_address", !.num = new_addr,
                                 !.failAt = failAt],
                  _send_cmd(98, <<new_addr>>))
        /\ i2c_addr' = IF outcome' = "ok" THEN new_addr ELSE i2c_addr

\* the caller has the result (or the exception) and goes on to its next call;
\* the object keeps its address
Resume ==
    /\ pc = "returned"
    /\ pc' = "idle"
    /\ call' = NoCall
    /\ written' = <<>>
    /\ outcome' = "ok"
    /\ ret' = RNone
    /\ prev_addr' = i2c_addr
    /\ UNCHANGED i2c_addr

Next ==
    \/ Call_get_char_code
    \/ Call_write_char_from_code
    \/ Call_set_cursor_pos
    \/ Call_clear_line
    \/ Call_load_custom_character
    \/ Call_disp_custom_chars
    \/ Call_fixed_command
    \/ Call_cursor_style
    \/ Call_shift
    \/ Call_set_contrast
    \/ Call_set_backlight_brightness
    \/ Call_change_rs232_baud_rate
    \/ Call_change_i2c_address
    \/ Call_write
    \/ Call_write_line
    \/ Call_disp_msg
    \/ Resume

Spec == Init /\ [][Next]_vars

(***************************************************************************)
(* What the claims are stated with.                                        *)
(***************************************************************************)
\* the bytes of a sequence of writes
Bytes(w) == [k \in 1..Len(w) |-> w[k].byte]

\* the characters the claims call encodable, and the byte each stands for
SlotCodes == 0..7
SpecialSymbols == (DOMAIN special_chars) \ SlotCodes
Encodable(c) ==
    c \in SlotCodes \cup SpecialSymbols \cup ((32..125) \ {92})
CodeOf(c) == IF c \in SpecialSymbols THEN special_chars[c] ELSE c
AllEncodable(msg) == \A k \in 1..Len(msg) : Encodable(msg[k])
Codes(msg) == [k \in 1..Len(msg) |-> CodeOf(msg[k])]

\* the opcode table
Opcodes ==
    {65, 66, 69, 70, 71, 72, 73, 74, 75, 76, 78, 81, 82, 83, 84, 85, 86, 97,
     98, 112, 113, 114}

\* the bytes of set-cursor to (line, column) and of clear_line(line)
SetCursorBytes(line, column) == <<254, 69, (line - 1) * 64 + (column - 1)>>
ClearLineBytes(line) ==
    SetCursorBytes(line, 1) \o [k \in 1..16 |-> 32] \o SetCursorBytes(line, 1)

Returned(name) == pc = "returned" /\ call.name = name

(***************************************************************************)
(* C1: a text operation that fails validation has written no byte: when    *)
(* write, write_line or disp_msg ends in ValueError, `written` is empty.   *)
(***************************************************************************)
C1_FailedTextOpWroteNothing ==
    (pc = "returned" /\ call.name \in {"write", "write_line", "disp_msg"}
       /\ outcome = "ValueError")
    => written = <<>>

(***************************************************************************)
(* C2: set_cursor_pos(line, column) with line in {1,2} and column in       *)
(* 1..16 writes exactly 0xFE, 0x45, (line-1)*0x40 + (column-1) (unless the *)
(* transport fails); no other on-screen position gives the same address;   *)
(* the address of (2, column) is that of (1, column) plus 0x40; any other  *)
(* (line, column) ends in ValueError with nothing written.                 *)
(***************************************************************************)
C2_SetCursorPos ==
    Returned("set_cursor_pos") =>
        IF call.line \in {1, 2} /\ call.column \in 1..16
        THEN outcome # "IOError" =>
               /\ outcome = "ok"
               /\ Bytes(written) =
                    <<254, 69, (call.line - 1) * 64 + (call.column - 1)>>
               /\ \A l \in {1, 2}, c \in 1..16 :
                     Bytes(set_cursor_pos(l, c).out) = Bytes(written)
                        => l = call.line /\ c = call.column
               /\ set_cursor_pos(2, call.column).out[3].byte
                     - set_cursor_pos(1, call.column).out[3].byte = 64
        ELSE outcome = "ValueError" /\ written = <<>>

C2_Witness ==
    /\ Returned("set_cursor_pos")
    /\ call.line = 2 /\ call.column = 16
    /\ outcome = "ok"
    /\ Bytes(written) = <<254, 69, 79>>

(***************************************************************************)
(* C3: load_custom_character(slot, bitmap) succeeds exactly when slot is   *)
(* in 0..7 and bitmap has 8 rows each in 0..31, and then writes 0xFE,      *)
(* 0x54, slot and the rows; otherwise it ends in ValueError with nothing   *)
(* written.                                                                *)
(***************************************************************************)
C3_LoadCustomCharacter ==
    (Returned("load_custom_character") /\ outcome # "IOError") =>
        IF /\ call.num \in 0..7
           /\ Len(call.bitmap) = 8
           /\ \A k \in 1..Len(call.bitmap) : call.bitmap[k] \in 0..31
        THEN outcome = "ok"
             /\ Bytes(written) = <<254, 84, call.num>> \o call.bitmap
        ELSE outcome = "ValueError" /\ written = <<>>

(***************************************************************************)
(* C4: _get_char_code returns the slot number for the code points 0..7,    *)
(* the table byte for a special symbol, the code point itself for 32..125  *)
(* except 92, and raises ValueError for every other character.             *)
(***************************************************************************)
C4_GetCharCode ==
    Returned("_get_char_code") =>
        LET c == call.num IN
        IF c \in SlotCodes THEN outcome = "ok" /\ ret = RInt(c)
        ELSE IF c \in SpecialSymbols
        THEN outcome = "ok" /\ ret = RInt(special_chars[c])
        ELSE IF c \in 32..125 /\ c # 92 THEN outcome = "ok" /\ ret = RInt(c)
        ELSE outcome = "ValueError" /\ written = <<>>

C4_Witness ==
    /\ Returned("_get_char_code")
    /\ call.num = 92
    /\ outcome = "ValueError"

(***************************************************************************)
(* C5: for every encodable text, line in {1,2} and value of centered,      *)
(* write_line completes, writes the clear-line sequence, a set-cursor to   *)
(* column 1 or 1 + floor((16 - len)/2), then the text, and returns         *)
(* len <= 16.                                                              *)
(***************************************************************************)
C5_WriteLineWritesRegardless ==
    (Returned("write_line") /\ outcome # "IOError"
       /\ AllEncodable(call.msg) /\ call.line \in {1, 2}) =>
        LET n == Len(call.msg)
            col == IF call.flag THEN 1 + ((16 - n) \div 2) ELSE 1
        IN /\ outcome = "ok"
           /\ Bytes(written) =
                ClearLineBytes(call.line) \o SetCursorBytes(call.line, col)
                   \o Codes(call.msg)
           /\ ret = RBool(n <= 16)

(***************************************************************************)
(* C6: disp_msg(text, preserve_words = false) on an encodable text of      *)
(* length n writes clear-screen, home, the first min(n,16) character       *)
(* codes, and, only if n > 16, one set-cursor to line 2 column 1 followed  *)
(* by the remaining codes; it returns n <= 32.                             *)
(***************************************************************************)
C6_DispMsgCharMode ==
    (Returned("disp_msg") /\ ~call.flag /\ outcome # "IOError"
       /\ AllEncodable(call.msg)) =>
        LET n == Len(call.msg)
            first == IF n < 16 THEN n ELSE 16
        IN /\ outcome = "ok"
           /\ Bytes(written) =
                <<254, 81, 254, 70>> \o Codes(SubSeq(call.msg, 1, first))
                   \o (IF n > 16
                       THEN <<254, 69, 64>> \o Codes(SubSeq(call.msg, 17, n))
                       ELSE <<>>)
           /\ ret = RBool(n <= 32)

C6_Witness ==
    /\ Returned("disp_msg") /\ ~call.flag
    /\ Len(call.msg) = 33 /\ call.msg[17] = 9632
    /\ outcome = "ok"
    /\ ret = RBool(FALSE)
    /\ Bytes(SubSeq(written, 21, 24)) = <<254, 69, 64, 255>>

(***************************************************************************)
(* The display as the claims see it: the cursor is placed by set-cursor,   *)
(* home and clear-screen, and advances by one with every character.        *)
(***************************************************************************)
\* whether the k-th write ends a command that places the cursor
PlacesCursor(w, k) ==
    \/ w[k].src = "cmd" /\ w[k].byte \in {70, 81}
    \/ w[k].src = "param" /\ w[k - 1].src = "cmd" /\ w[k - 1].byte = 69
\* the display address the character written as the k-th write landed on
LandedAt(w, k) ==
    LET placed == {j \in 1..(k - 1) : PlacesCursor(w, j)}
        last == IF placed = {} THEN 0
                ELSE CHOOSE j \in placed : \A m \in placed : m <= j
        base == IF last = 0 \/ w[last].src = "cmd" THEN 0 ELSE w[last].byte
    IN base + Cardinality({j \in (last + 1)..(k - 1) : w[j].src = "char"})
CharWrites(w) == {k \in 1..Len(w) : w[k].src = "char"}
AllOnScreen(w) ==
    \A k \in CharWrites(w) : LandedAt(w, k) \in (0..15) \cup (64..79)
NoneOverwritten(w) ==
    \A j, k \in CharWrites(w) : j < k => LandedAt(w, j) # LandedAt(w, k)

(***************************************************************************)
(* C7: in word mode disp_msg returns whether the message fits.  The        *)
(* device cursor is set by set-cursor and home and advances by one with    *)
(* every character written.  If disp_msg returned true, every character    *)
(* landed in columns 1..16 of line 1 or 2 and none landed where an earlier *)
(* one had; if it returned false, some character did not.                  *)
(***************************************************************************)
C7_WordModeFits ==
    (Returned("disp_msg") /\ call.flag /\ outcome = "ok") =>
        (ret = RBool(TRUE) <=> (AllOnScreen(written) /\ NoneOverwritten(written)))

(***************************************************************************)
(* C8: change_i2c_address(new) writes 0xFE, 0x62, new to the address       *)
(* stored before the call and only then stores new; if a write fails the   *)
(* stored address is unchanged; every write of every call goes to the      *)
(* address stored when the call started, and no other call changes the     *)
(* stored address.                                                         *)
(***************************************************************************)
C8_ChangeAddress ==
    /\ pc = "idle" => prev_addr = i2c_addr
    /\ pc = "returned" =>
        /\ \A k \in 1..Len(written) : written[k].addr = prev_addr
        /\ IF call.name = "change_i2c_address"
           THEN IF outcome = "ok"
                THEN Bytes(written) = <<254, 98, call.num>>
                     /\ i2c_addr = call.num
                ELSE /\ outcome = "IOError"
                     /\ Len(written) < 3
                     /\ Bytes(written) = SubSeq(<<254, 98, call.num>>, 1, Len(written))
                     /\ i2c_addr = prev_addr
           ELSE i2c_addr = prev_addr

C8_Witness ==
    /\ Returned("change_i2c_address")
    /\ outcome = "ok"
    /\ i2c_addr = call.num /\ i2c_addr # prev_addr
    /\ \A k \in 1..3 : written[k].addr = prev_addr

(***************************************************************************)
(* C9: in word mode disp_msg issues the set-cursor command at most once.   *)
(***************************************************************************)
C9_WordModeOneJump ==
    (Returned("disp_msg") /\ call.flag) =>
        Cardinality({k \in 1..Len(written) :
                       written[k].src = "cmd" /\ written[k].byte = 69}) <= 1

(***************************************************************************)
(* C10: no character the encoder accepts maps to 0xFE and no set-cursor    *)
(* parameter is 0xFE: in what a successful write, write_line, clear_line,  *)
(* disp_msg or disp_custom_chars wrote, every 0xFE byte was written by     *)
(* _send_cmd as the start of a command and the next byte is an opcode.     *)
(***************************************************************************)
C10_NoInjectedCommand ==
    /\ (Returned("_get_char_code") /\ outcome = "ok") => ret.val # 254
    /\ (Returned("set_cursor_pos") /\ outcome = "ok") => written[3].byte # 254
    /\ (pc = "returned" /\ outcome = "ok"
          /\ call.name \in {"write", "write_line", "clear_line", "disp_msg",
                            "disp_custom_chars"}) =>
         \A k \in 1..Len(written) :
            written[k].byte = 254 =>
               /\ written[k].src = "esc"
               /\ k < Len(written)
               /\ written[k + 1].src = "cmd"
               /\ written[k + 1].byte \in Opcodes

C10_Witness ==
    /\ Returned("disp_msg") /\ ~call.flag
    /\ outcome = "ok"
    /\ Len(call.msg) = 20 /\ call.msg[20] = 9632
    /\ written[21].byte = 254 /\ written[27].byte = 255

====
